---- MODULE Spec2Model ----
(***************************************************************************)
(* Model of server.js: the POST /api/attendance handler, the Student and   *)
(* Attendance collections it reads and writes, and the greedy face         *)
(* matching it performs.  Every `await` of the handler is a step boundary: *)
(* Node runs the code between two awaits without interruption, and other   *)
(* requests may run in between.                                            *)
(*                                                                         *)
(* Descriptors are vectors of one coordinate; one unit of a coordinate is  *)
(* 0.3, so that the threshold 0.6 of the code is 2 units and the distances *)
(* 0.0, 0.3 (below), 0.6 (equal) and 0.9 (above) all occur.  Stored and    *)
(* detected descriptors come from the same network and have one length.    *)
(* A rejected Attendance.insertMany is taken to have written nothing.      *)
(***************************************************************************)
EXTENDS Integers, Sequences, FiniteSets, TLC

\* ---------------------------------------------------------------- bounds
MaxStudents == 2        \* students in the Student collection (Spec)
MaxFaces == 2           \* faces detected in one class photo (Spec)
MaxCoord == 3           \* descriptor coordinates are 0..MaxCoord (Spec)
MaxRoster == 4          \* students in the Student collection (SpecFallback)
MaxLogStudents == 1     \* students in the Student collection (SpecLog)
NumSubmissions == 2     \* concurrent submissions (SpecLog)

\* ------------------------------------------------------ program constants
DistanceThreshold == 2  \* 0.6, in units of 0.3
MockTenths == 8         \* 0.8
FallbackTenths == 7     \* 0.7
Infinity == -1          \* let minDistance = Infinity
NoMatch == 0            \* let bestMatch = null

NoFile == 0             \* req.file undefined
NoResponse == [status |-> 0]

\* req.body of a submission: each field present or missing (""); class "C" has no
\* students.
Bodies == [classId : {"", "A", "C"}, period : {"", "1"}, date : {"", "2025-01-01"}]

\* The bodies of the concurrent submissions: all for class "A", one date, one period.
LogBodies == [classId : {"A"}, period : {"1"}, date : {"2025-01-01"}]

Coords == 0..MaxCoord
Descriptors == {<<c>> : c \in Coords}

\* The results detectAllFaces can give for a photo: up to maxFaces descriptors.
FaceLists(maxFaces, descs) == UNION {[1..n -> descs] : n \in 0..maxFaces}

\* The Student collection: ids 1..n in insertion order.  A student of class "A"
\* has any of the descriptors descs; class "B" is other students, never submitted
\* for, whose descriptor does not matter; no student is in class "C".
MkStudents(f) == [i \in 1..Len(f) |-> [id |-> i, class |-> f[i][1], faceDescriptor |-> f[i][2]]]

StudentCollections(maxN, descs) ==
    {MkStudents(f) : f \in FaceLists(maxN, ({"A"} \X descs) \cup {<<"B", <<0>> >>})}

VARIABLES
    Student,            \* the Student collection
    Attendance,         \* the Attendance collection, in insertion order
    pc,                 \* per request: the await the handler is suspended at
    req,                \* per request: req.body and req.file
    students,           \* per request: const students
    detections,         \* per request: const detections
    matchedStudents,    \* per request: const matchedStudents
    bestMatches,        \* per request: bestMatch of each iteration of the outer loop
    attendanceRecords,  \* per request: const attendanceRecords (of the current block)
    faceError,          \* per request: the error caught by catch (faceError)
    res                 \* per request: the response sent

vars == <<Student, Attendance, pc, req, students, detections, matchedStudents,
          bestMatches, attendanceRecords, faceError, res>>

\* ------------------------------------------------------------ pure helpers

\* parseInt(period) for the period strings the model submits.
ParseInt(str) == CASE str = "1" -> 1 [] str = "2" -> 2 [] OTHER -> 0

\* Math.floor(n * 0.8) and Math.floor(n * 0.7): tenths is 8 or 7.  The floating
\* point product and the exact one have the same floor for every n below 90.
FloorRatio(n, tenths) == (n * tenths) \div 10

RECURSIVE SumSq(_, _, _)
SumSq(a, b, i) == IF i > Len(a) THEN 0 ELSE (a[i] - b[i]) * (a[i] - b[i]) + SumSq(a, b, i + 1)

Sqrt(x) == CHOOSE root \in 0..x : root * root = x

\* faceapi.euclideanDistance(arr1, arr2), on vectors of the same length.
euclideanDistance(arr1, arr2) == Sqrt(SumSq(arr1, arr2, 1))

\* Student.find({ class: classId })
StudentFind(coll, classId) == SelectSeq(coll, LAMBDA s : s.class = classId)

\* students.every(student => student.faceDescriptor && student.faceDescriptor.length > 0)
hasFaceDescriptors(sts) == \A i \in 1..Len(sts) : Len(sts[i].faceDescriptor) > 0

\* One attendance record of the request rq.
Record(rq, studentId, status) ==
    [date |-> rq.date, studentId |-> studentId, status |-> status,
     period |-> ParseInt(rq.period), classPhoto |-> rq.file]

\* students.map((student, index) => ({... status: index < Math.floor(students.length * p) ...}))
SyntheticRecords(sts, rq, tenths) ==
    [i \in 1..Len(sts) |->
        Record(rq, sts[i].id,
               IF i - 1 < FloorRatio(Len(sts), tenths) THEN "Present" ELSE "Absent")]

MockRecordsSwapped(sts, rq) == SyntheticRecords(sts, rq, FallbackTenths)

\* The records of mock mode (80% present).
MockRecords(sts, rq) == SyntheticRecords(sts, rq, MockTenths)

\* The records of catch (faceError) (70% present).
FallbackRecords(sts, rq) == SyntheticRecords(sts, rq, FallbackTenths)

\* students.map(student => ({... status: "Absent" ...}))
AllAbsentRecords(sts, rq) == [i \in 1..Len(sts) |-> Record(rq, sts[i].id, "Absent")]

WithinThresholdInclusive(distance) == distance <= DistanceThreshold

\* distance < 0.6
WithinThreshold(distance) == distance < DistanceThreshold

CloserAlways(distance, minDistance) == TRUE

\* distance < minDistance, minDistance being Infinity at first
Closer(distance, minDistance) == minDistance = Infinity \/ distance < minDistance

AlreadyMatchedNever(matched, student) == FALSE

\* matchedStudents.has(student._id.toString())
AlreadyMatched(matched, student) == student.id \in matched

\* The inner loop, for (const student of students), from the i-th student on:
\* [bestMatch, minDistance] after it.
RECURSIVE BestMatch(_, _, _, _, _, _)
BestMatch(classDescriptor, sts, i, matched, bestMatch, minDistance) ==
    IF i > Len(sts) THEN bestMatch
    ELSE LET student == sts[i]
         IN  IF AlreadyMatched(matched, student)
                 THEN BestMatch(classDescriptor, sts, i + 1, matched, bestMatch, minDistance)
             ELSE IF Len(student.faceDescriptor) = 0
                 THEN BestMatch(classDescriptor, sts, i + 1, matched, bestMatch, minDistance)
             ELSE LET distance == euclideanDistance(classDescriptor, student.faceDescriptor)
                  IN  IF Closer(distance, minDistance) /\ WithinThreshold(distance)
                          THEN BestMatch(classDescriptor, sts, i + 1, matched, student.id, distance)
                          ELSE BestMatch(classDescriptor, sts, i + 1, matched, bestMatch, minDistance)

\* The outer loop, for (const detection of detections), from the k-th detection
\* on; st holds matchedStudents, attendanceRecords and each iteration's bestMatch.
RECURSIVE MatchLoop(_, _, _, _, _)
MatchLoop(dets, k, sts, rq, st) ==
    IF k > Len(dets) THEN st
    ELSE LET bestMatch == BestMatch(dets[k], sts, 1, st.matched, NoMatch, Infinity)
         IN  IF bestMatch # NoMatch
                 THEN MatchLoop(dets, k + 1, sts, rq,
                        [matched |-> st.matched \cup {bestMatch},
                         records |-> Append(st.records, Record(rq, bestMatch, "Present")),
                         best |-> Append(st.best, bestMatch)])
                 ELSE MatchLoop(dets, k + 1, sts, rq,
                        [st EXCEPT !.best = Append(st.best, NoMatch)])

RECURSIVE MarkUnmatchedAbsentAll(_, _, _, _, _)
MarkUnmatchedAbsentAll(sts, i, matched, rq, records) ==
    IF i > Len(sts) THEN records
    ELSE MarkUnmatchedAbsentAll(sts, i + 1, matched, rq,
                                Append(records, Record(rq, sts[i].id, "Absent")))

\* for (const student of students) if (!matchedStudents.has(...)) push Absent
RECURSIVE MarkUnmatchedAbsent(_, _, _, _, _)
MarkUnmatchedAbsent(sts, i, matched, rq, records) ==
    IF i > Len(sts) THEN records
    ELSE IF sts[i].id \in matched
        THEN MarkUnmatchedAbsent(sts, i + 1, matched, rq, records)
        ELSE MarkUnmatchedAbsent(sts, i + 1, matched, rq,
                                 Append(records, Record(rq, sts[i].id, "Absent")))

\* The whole matching block: both loops, from fresh matchedStudents and attendanceRecords.
GreedyMatch(dets, sts, rq) ==
    LET st == MatchLoop(dets, 1, sts, rq, [matched |-> {}, records |-> <<>>, best |-> <<>>])
    IN  [st EXCEPT !.records = MarkUnmatchedAbsent(sts, 1, st.matched, rq, st.records)]

InsertManyUpsert(coll, docs) ==
    SelectSeq(coll, LAMBDA old : \A i \in 1..Len(docs) :
                  <<docs[i].date, docs[i].period, docs[i].studentId>>
                      # <<old.date, old.period, old.studentId>>) \o docs

\* Attendance.insertMany(attendanceRecords), when it succeeds
InsertMany(coll, docs) == coll \o docs

\* attendanceRecords.map(record => ({studentId, ..., status, period})) after the look-ups
FormatAttendance(records) ==
    [i \in 1..Len(records) |->
        [studentId |-> records[i].studentId, status |-> records[i].status,
         period |-> records[i].period]]

CountPresent(records) == Cardinality({i \in 1..Len(records) : records[i].status = "Present"})

Summary(total, present) == [totalStudents |-> total, present |-> present, absent |-> total - present]

Created(message, records, total, present) ==
    [status |-> 201, message |-> message, attendance |-> FormatAttendance(records),
     summary |-> Summary(total, present)]

Failure(status, message) == [status |-> status, message |-> message]

\* ------------------------------------------------------------- the handler

Respond(r, response) ==
    /\ res' = [res EXCEPT ![r] = response]
    /\ pc' = [pc EXCEPT ![r] = "done"]

\* catch (error): the outer catch of the handler.
OuterCatch(r) == Respond(r, Failure(500, "Failed to record attendance"))

\* catch (faceError): builds the 70% records and goes on to write them.
FaceCatch(r, error) ==
    /\ faceError' = [faceError EXCEPT ![r] = error]
    /\ attendanceRecords' = [attendanceRecords EXCEPT ![r] = FallbackRecords(students[r], req[r])]
    /\ pc' = [pc EXCEPT ![r] = "fallbackInsert"]

\* The request arrives (multer has stored the photo under a fresh name, modelled
\* by the request's number) and the required fields are checked.
Receive(r, bodies) ==
    /\ pc[r] = "idle"
    /\ \E body \in bodies, file \in {NoFile, r} :
         LET rq == [classId |-> body.classId, period |-> body.period, date |-> body.date,
                    file |-> file]
         IN  /\ req' = [req EXCEPT ![r] = rq]
             /\ IF rq.classId = "" \/ rq.period = "" \/ rq.date = "" \/ rq.file = NoFile
                    THEN Respond(r, Failure(400, "All fields are required"))
                    ELSE /\ pc' = [pc EXCEPT ![r] = "find"]
                         /\ UNCHANGED res
    /\ UNCHANGED <<Student, Attendance, students, detections, matchedStudents,
                   bestMatches, attendanceRecords, faceError>>

\* await Student.find rejects.
FindStudentsFails(r) ==
    /\ pc[r] = "find"
    /\ OuterCatch(r)
    /\ UNCHANGED <<Student, Attendance, req, students, detections, matchedStudents,
                   bestMatches, attendanceRecords, faceError>>

\* await Student.find resolves; the code up to the next await runs.
FindStudents(r) ==
    /\ pc[r] = "find"
    /\ LET found == StudentFind(Student, req[r].classId)
       IN  /\ students' = [students EXCEPT ![r] = found]
           /\ IF Len(found) = 0
                  THEN /\ Respond(r, Failure(404, "No students found in this class"))
                       /\ UNCHANGED attendanceRecords
              ELSE IF ~hasFaceDescriptors(found)
                  THEN /\ attendanceRecords' =
                              [attendanceRecords EXCEPT ![r] = MockRecords(found, req[r])]
                       /\ pc' = [pc EXCEPT ![r] = "mockInsert"]
                       /\ UNCHANGED res
              ELSE /\ pc' = [pc EXCEPT ![r] = "detect"]
                   /\ UNCHANGED <<attendanceRecords, res>>
    /\ UNCHANGED <<Student, Attendance, req, detections, matchedStudents, bestMatches, faceError>>

\* Mock mode: await Attendance.insertMany.
MockInsert(r) ==
    /\ pc[r] = "mockInsert"
    /\ Attendance' = InsertMany(Attendance, attendanceRecords[r])
    /\ pc' = [pc EXCEPT ![r] = "mockFormat"]
    /\ UNCHANGED <<Student, req, students, detections, matchedStudents, bestMatches,
                   attendanceRecords, faceError, res>>

MockInsertFails(r) ==
    /\ pc[r] = "mockInsert"
    /\ OuterCatch(r)
    /\ UNCHANGED <<Student, Attendance, req, students, detections, matchedStudents,
                   bestMatches, attendanceRecords, faceError>>

\* Mock mode: await Promise.all of the Student.findById look-ups, then the response.
MockFormat(r) ==
    /\ pc[r] = "mockFormat"
    /\ Respond(r, Created("Attendance recorded successfully (mock mode)",
                          attendanceRecords[r], Len(students[r]),
                          CountPresent(attendanceRecords[r])))
    /\ UNCHANGED <<Student, Attendance, req, students, detections, matchedStudents,
                   bestMatches, attendanceRecords, faceError>>

MockFormatFails(r) ==
    /\ pc[r] = "mockFormat"
    /\ OuterCatch(r)
    /\ UNCHANGED <<Student, Attendance, req, students, detections, matchedStudents,
                   bestMatches, attendanceRecords, faceError>>

\* await canvas.loadImage or await detectAllFaces rejects.
DetectFails(r) ==
    /\ pc[r] = "detect"
    /\ FaceCatch(r, "extraction")
    /\ UNCHANGED <<Student, Attendance, req, students, detections, matchedStudents,
                   bestMatches, res>>

\* The detection resolves with the faces of the photo; the code up to the next
\* await runs: the all-absent records, or the two matching loops.
Detect(r, faceLists) ==
    /\ pc[r] = "detect"
    /\ \E faces \in faceLists :
         /\ detections' = [detections EXCEPT ![r] = faces]
         /\ IF Len(faces) = 0
                THEN /\ attendanceRecords' =
                            [attendanceRecords EXCEPT ![r] = AllAbsentRecords(students[r], req[r])]
                     /\ pc' = [pc EXCEPT ![r] = "noFacesInsert"]
                     /\ UNCHANGED <<matchedStudents, bestMatches>>
                ELSE LET m == GreedyMatch(faces, students[r], req[r])
                     IN  /\ matchedStudents' = [matchedStudents EXCEPT ![r] = m.matched]
                         /\ bestMatches' = [bestMatches EXCEPT ![r] = m.best]
                         /\ attendanceRecords' = [attendanceRecords EXCEPT ![r] = m.records]
                         /\ pc' = [pc EXCEPT ![r] = "matchInsert"]
    /\ UNCHANGED <<Student, Attendance, req, students, faceError, res>>

\* No faces: await Attendance.insertMany.
NoFacesInsert(r) ==
    /\ pc[r] = "noFacesInsert"
    /\ Attendance' = InsertMany(Attendance, attendanceRecords[r])
    /\ pc' = [pc EXCEPT ![r] = "noFacesFormat"]
    /\ UNCHANGED <<Student, req, students, detections, matchedStudents, bestMatches,
                   attendanceRecords, faceError, res>>

\* The rejection is thrown inside the try block, so catch (faceError) takes it.
NoFacesInsertFails(r) ==
    /\ pc[r] = "noFacesInsert"
    /\ FaceCatch(r, "insertMany")
    /\ UNCHANGED <<Student, Attendance, req, students, detections, matchedStudents,
                   bestMatches, res>>

NoFacesFormat(r) ==
    /\ pc[r] = "noFacesFormat"
    /\ Respond(r, Created("Attendance recorded successfully (no faces detected)",
                          attendanceRecords[r], Len(students[r]), 0))
    /\ UNCHANGED <<Student, Attendance, req, students, detections, matchedStudents,
                   bestMatches, attendanceRecords, faceError>>

NoFacesFormatFails(r) ==
    /\ pc[r] = "noFacesFormat"
    /\ FaceCatch(r, "findById")
    /\ UNCHANGED <<Student, Attendance, req, students, detections, matchedStudents,
                   bestMatches, res>>

\* Matching: await Attendance.insertMany.
MatchInsert(r) ==
    /\ pc[r] = "matchInsert"
    /\ Attendance' = InsertMany(Attendance, attendanceRecords[r])
    /\ pc' = [pc EXCEPT ![r] = "matchFormat"]
    /\ UNCHANGED <<Student, req, students, detections, matchedStudents, bestMatches,
                   attendanceRecords, faceError, res>>

MatchInsertFails(r) ==
    /\ pc[r] = "matchInsert"
    /\ FaceCatch(r, "insertMany")
    /\ UNCHANGED <<Student, Attendance, req, students, detections, matchedStudents,
                   bestMatches, res>>

MatchFormat(r) ==
    /\ pc[r] = "matchFormat"
    /\ Respond(r, Created("Attendance recorded successfully",
                          attendanceRecords[r], Len(students[r]),
                          Cardinality(matchedStudents[r])))
    /\ UNCHANGED <<Student, Attendance, req, students, detections, matchedStudents,
                   bestMatches, attendanceRecords, faceError>>

MatchFormatFails(r) ==
    /\ pc[r] = "matchFormat"
    /\ FaceCatch(r, "findById")
    /\ UNCHANGED <<Student, Attendance, req, students, detections, matchedStudents,
                   bestMatches, res>>

\* catch (faceError): await Attendance.insertMany.
FallbackInsert(r) ==
    /\ pc[r] = "fallbackInsert"
    /\ Attendance' = InsertMany(Attendance, attendanceRecords[r])
    /\ pc' = [pc EXCEPT ![r] = "fallbackFormat"]
    /\ UNCHANGED <<Student, req, students, detections, matchedStudents, bestMatches,
                   attendanceRecords, faceError, res>>

FallbackInsertFails(r) ==
    /\ pc[r] = "fallbackInsert"
    /\ OuterCatch(r)
    /\ UNCHANGED <<Student, Attendance, req, students, detections, matchedStudents,
                   bestMatches, attendanceRecords, faceError>>

FallbackFormat(r) ==
    /\ pc[r] = "fallbackFormat"
    /\ Respond(r, Created("Attendance recorded with fallback (face processing failed)",
                          attendanceRecords[r], Len(students[r]),
                          CountPresent(attendanceRecords[r])))
    /\ UNCHANGED <<Student, Attendance, req, students, detections, matchedStudents,
                   bestMatches, attendanceRecords, faceError>>

FallbackFormatFails(r) ==
    /\ pc[r] = "fallbackFormat"
    /\ OuterCatch(r)
    /\ UNCHANGED <<Student, Attendance, req, students, detections, matchedStudents,
                   bestMatches, attendanceRecords, faceError>>

\* ---------------------------------------------------------- specifications

InitRequests(n) ==
    /\ Attendance = <<>>
    /\ pc = [r \in 1..n |-> "idle"]
    /\ req = [r \in 1..n |-> [classId |-> "", period |-> "", date |-> "", file |-> NoFile]]
    /\ students = [r \in 1..n |-> <<>>]
    /\ detections = [r \in 1..n |-> <<>>]
    /\ matchedStudents = [r \in 1..n |-> {}]
    /\ bestMatches = [r \in 1..n |-> <<>>]
    /\ attendanceRecords = [r \in 1..n |-> <<>>]
    /\ faceError = [r \in 1..n |-> "none"]
    /\ res = [r \in 1..n |-> NoResponse]

\* One submission; any collection of up to MaxStudents students, each with a
\* stored descriptor or an empty one; any photo of up to MaxFaces faces.
Init ==
    /\ Student \in StudentCollections(MaxStudents, Descriptors \cup {<<>>})
    /\ InitRequests(1)

Next ==
    \E r \in 1..1 :
        \/ Receive(r, Bodies)
        \/ FindStudents(r)
        \/ FindStudentsFails(r)
        \/ MockInsert(r)
        \/ MockInsertFails(r)
        \/ MockFormat(r)
        \/ MockFormatFails(r)
        \/ Detect(r, FaceLists(MaxFaces, Descriptors))
        \/ DetectFails(r)
        \/ NoFacesInsert(r)
        \/ NoFacesInsertFails(r)
        \/ NoFacesFormat(r)
        \/ NoFacesFormatFails(r)
        \/ MatchInsert(r)
        \/ MatchInsertFails(r)
        \/ MatchFormat(r)
        \/ MatchFormatFails(r)
        \/ FallbackInsert(r)
        \/ FallbackInsertFails(r)
        \/ FallbackFormat(r)
        \/ FallbackFormatFails(r)

Spec == Init /\ [][Next]_vars

\* One submission over larger rosters; the descriptors are all equal or empty.
InitFallback ==
    /\ Student \in StudentCollections(MaxRoster, {<<0>>, <<>>})
    /\ InitRequests(1)

NextFallback ==
    \E r \in 1..1 :
        \/ Receive(r, Bodies)
        \/ FindStudents(r)
        \/ FindStudentsFails(r)
        \/ MockInsert(r)
        \/ MockInsertFails(r)
        \/ MockFormat(r)
        \/ MockFormatFails(r)
        \/ Detect(r, FaceLists(1, {<<0>>}))
        \/ DetectFails(r)
        \/ NoFacesInsert(r)
        \/ NoFacesInsertFails(r)
        \/ NoFacesFormat(r)
        \/ NoFacesFormatFails(r)
        \/ MatchInsert(r)
        \/ MatchInsertFails(r)
        \/ MatchFormat(r)
        \/ MatchFormatFails(r)
        \/ FallbackInsert(r)
        \/ FallbackInsertFails(r)
        \/ FallbackFormat(r)
        \/ FallbackFormatFails(r)

SpecFallback == InitFallback /\ [][NextFallback]_vars

\* Concurrent submissions over a small collection.
InitLog ==
    /\ Student \in StudentCollections(MaxLogStudents, {<<0>>, <<>>})
    /\ InitRequests(NumSubmissions)

NextLog ==
    \E r \in 1..NumSubmissions :
        \/ Receive(r, LogBodies)
        \/ FindStudents(r)
        \/ FindStudentsFails(r)
        \/ MockInsert(r)
        \/ MockInsertFails(r)
        \/ MockFormat(r)
        \/ MockFormatFails(r)
        \/ Detect(r, FaceLists(1, {<<0>>}))
        \/ DetectFails(r)
        \/ NoFacesInsert(r)
        \/ NoFacesInsertFails(r)
        \/ NoFacesFormat(r)
        \/ NoFacesFormatFails(r)
        \/ MatchInsert(r)
        \/ MatchInsertFails(r)
        \/ MatchFormat(r)
        \/ MatchFormatFails(r)
        \/ FallbackInsert(r)
        \/ FallbackInsertFails(r)
        \/ FallbackFormat(r)
        \/ FallbackFormatFails(r)

SpecLog == InitLog /\ [][NextLog]_vars

\* ------------------------------------------------------------------ claims

Reqs == DOMAIN pc

\* The handler of r has built attendance records (any branch).
Built(r) == students[r] # <<>> /\ pc[r] \notin {"idle", "find", "detect"}

\* attendanceRecords[r] is what the two matching loops built.
InGreedy(r) ==
    \/ pc[r] \in {"matchInsert", "matchFormat"}
    \/ pc[r] = "done" /\ res[r].status = 201 /\ res[r].message = "Attendance recorded successfully"

\* The matching loops have run for r.
Matched(r) == Len(detections[r]) > 0

\* Positions, in students[r], of the students no face before the k-th has claimed.
UnmatchedBefore(r, k) ==
    {i \in 1..Len(students[r]) : \A j \in 1..(k - 1) : bestMatches[r][j] # students[r][i].id}

\* Distance between the k-th detected face and the i-th student of the roster.
Dist(r, k, i) == euclideanDistance(detections[r][k], students[r][i].faceDescriptor)

\* The records request r has added to the Attendance collection.
WrittenBy(r) == SelectSeq(Attendance, LAMBDA rec : rec.classPhoto = r)

\* C1.  Completeness: whenever the handler has built attendance records, in the
\* matching, no-faces, mock and fallback branches alike, they are exactly one
\* record per student of the submitted class, each Present or Absent.
C1_Completeness ==
    \A r \in Reqs : Built(r) =>
        LET recs == attendanceRecords[r]
            roster == {Student[i].id : i \in {j \in 1..Len(Student) : Student[j].class = req[r].classId}}
        IN  /\ Len(recs) = Cardinality(roster)
            /\ \A id \in roster : Cardinality({j \in 1..Len(recs) : recs[j].studentId = id}) = 1
            /\ \A j \in 1..Len(recs) : recs[j].studentId \in roster /\ recs[j].status \in {"Present", "Absent"}

\* Two students, two faces, and the matching loops built one Present and one
\* Absent record.
C1_Witness ==
    \E r \in Reqs :
        /\ pc[r] = "matchInsert"
        /\ Len(students[r]) = 2 /\ Len(detections[r]) = 2
        /\ \E a, b \in 1..2 : /\ attendanceRecords[r][a].status = "Present"
                              /\ attendanceRecords[r][b].status = "Absent"

\* C2.  One-to-one: in the matching path no student is claimed by two faces, each
\* student has at most one Present record, and the Present records are as many as
\* the faces that matched, hence at most min(faces, students).
C2_OneToOne ==
    \A r \in Reqs : InGreedy(r) =>
        LET recs == attendanceRecords[r]
            present == {j \in 1..Len(recs) : recs[j].status = "Present"}
            claiming == {k \in 1..Len(bestMatches[r]) : bestMatches[r][k] # NoMatch}
        IN  /\ Len(bestMatches[r]) = Len(detections[r])
            /\ \A k1, k2 \in claiming : k1 # k2 => bestMatches[r][k1] # bestMatches[r][k2]
            /\ \A j1, j2 \in present : j1 # j2 => recs[j1].studentId # recs[j2].studentId
            /\ Cardinality(present) = Cardinality(claiming)
            /\ Cardinality(present) = Cardinality(matchedStudents[r])
            /\ Cardinality(present) <= Len(detections[r])
            /\ Cardinality(present) <= Len(students[r])

\* Two faces, both within the threshold of the one student of the roster: the
\* first claims the student, the second matches nobody.
C2_Witness ==
    \E r \in Reqs :
        /\ InGreedy(r)
        /\ Len(students[r]) = 1 /\ Len(detections[r]) = 2
        /\ Dist(r, 1, 1) < DistanceThreshold /\ Dist(r, 2, 1) < DistanceThreshold
        /\ bestMatches[r] = <<students[r][1].id, NoMatch>>

\* C3.  Threshold boundary: a face matches a student only at a distance strictly
\* below the threshold; when every unmatched student is at the threshold or
\* beyond, the face matches nobody; when some unmatched student is below it, the
\* face matches one at the least distance.  A student is Present exactly when some
\* face claimed them.
C3_Threshold ==
    \A r \in Reqs : Matched(r) =>
        /\ \A k \in 1..Len(detections[r]) :
             LET U == UnmatchedBefore(r, k)
                 m == bestMatches[r][k]
             IN  /\ m # NoMatch =>
                        \E i \in 1..Len(students[r]) :
                            students[r][i].id = m /\ Dist(r, k, i) < DistanceThreshold
                 /\ (\A i \in U : Dist(r, k, i) >= DistanceThreshold) => m = NoMatch
                 /\ (\E i \in U : Dist(r, k, i) < DistanceThreshold) =>
                        \E i \in U : /\ students[r][i].id = m
                                     /\ \A i2 \in U : Dist(r, k, i) <= Dist(r, k, i2)
        /\ InGreedy(r) =>
             \A j \in 1..Len(attendanceRecords[r]) :
                 attendanceRecords[r][j].status = "Present" <=>
                     \E k \in 1..Len(bestMatches[r]) :
                         bestMatches[r][k] = attendanceRecords[r][j].studentId

\* One face matched a student below the threshold, and another face, whose
\* nearest unmatched student is at exactly the threshold, matched nobody, so that
\* student is Absent.
C3_Witness ==
    \E r \in Reqs :
        /\ InGreedy(r)
        /\ \E k1, k2 \in 1..Len(detections[r]) :
             /\ bestMatches[r][k1] # NoMatch
             /\ bestMatches[r][k2] = NoMatch
             /\ \E i \in UnmatchedBefore(r, k2) :
                  /\ Dist(r, k2, i) = DistanceThreshold
                  /\ \A i2 \in UnmatchedBefore(r, k2) : Dist(r, k2, i2) >= DistanceThreshold
                  /\ \E j \in 1..Len(attendanceRecords[r]) :
                       /\ attendanceRecords[r][j].studentId = students[r][i].id
                       /\ attendanceRecords[r][j].status = "Absent"

\* C4.  Greedy order-dependence: the k-th face is assigned among the students no
\* earlier face has claimed, to one at the least distance; so a face that comes
\* first and has student a as its single nearest unmatched student, below the
\* threshold, claims a, and no later face does, however close to a it is.
C4_GreedyOrder ==
    \A r \in Reqs : Matched(r) =>
        /\ \A k \in 1..Len(detections[r]) :
             bestMatches[r][k] # NoMatch =>
                 \E i \in UnmatchedBefore(r, k) :
                     /\ students[r][i].id = bestMatches[r][k]
                     /\ \A i2 \in UnmatchedBefore(r, k) : Dist(r, k, i) <= Dist(r, k, i2)
        /\ \A k1, k2 \in 1..Len(detections[r]) : \A a \in UnmatchedBefore(r, k1) :
             (/\ k1 < k2
              /\ Dist(r, k1, a) < DistanceThreshold
              /\ \A i \in UnmatchedBefore(r, k1) \ {a} : Dist(r, k1, a) < Dist(r, k1, i))
             => /\ bestMatches[r][k1] = students[r][a].id
                /\ bestMatches[r][k2] # students[r][a].id

\* Two faces, both closer to student a than to student b, the second closer to a
\* than the first: the first claims a, the second is left with b.
C4_Witness ==
    \E r \in Reqs :
        /\ InGreedy(r)
        /\ Len(detections[r]) = 2 /\ Len(students[r]) = 2
        /\ \E a, b \in 1..2 :
             /\ a # b
             /\ Dist(r, 1, a) < Dist(r, 1, b) /\ Dist(r, 2, a) < Dist(r, 2, b)
             /\ Dist(r, 2, a) < Dist(r, 1, a)
             /\ bestMatches[r] = <<students[r][a].id, students[r][b].id>>

\* The statuses of the synthetic policy for n students: the first
\* floor(n * tenths / 10) Present, the others Absent.
SyntheticStatus(n, tenths, i) == IF i <= (n * tenths) \div 10 THEN "Present" ELSE "Absent"

IsSynthetic(recs, sts, tenths) ==
    /\ Len(recs) = Len(sts)
    /\ \A i \in 1..Len(sts) : /\ recs[i].studentId = sts[i].id
                              /\ recs[i].status = SyntheticStatus(Len(sts), tenths, i)

\* C5.  Whole-roster fallback: when some student of the roster has an empty
\* descriptor, no detection and no matching is done; the records built, the
\* records written and the response are those of the synthetic policy with
\* p = 0.8 over the whole roster.
C5_MockWholeRoster ==
    \A r \in Reqs :
        (students[r] # <<>> /\ \E i \in 1..Len(students[r]) : students[r][i].faceDescriptor = <<>>) =>
            /\ pc[r] \in {"mockInsert", "mockFormat", "done"}
            /\ detections[r] = <<>> /\ bestMatches[r] = <<>> /\ matchedStudents[r] = {}
            /\ faceError[r] = "none"
            /\ IsSynthetic(attendanceRecords[r], students[r], 8)
            /\ WrittenBy(r) \in {<<>>, attendanceRecords[r]}
            /\ (pc[r] = "done" /\ res[r].status = 201) =>
                   /\ res[r].message = "Attendance recorded successfully (mock mode)"
                   /\ res[r].summary.present = (Len(students[r]) * 8) \div 10
                   /\ res[r].summary.absent = Len(students[r]) - (Len(students[r]) * 8) \div 10
                   /\ WrittenBy(r) = attendanceRecords[r]

\* Four students, one of them without a descriptor and three with one: the
\* response is that of mock mode, three Present and one Absent.
C5_Witness ==
    \E r \in Reqs :
        /\ pc[r] = "done" /\ res[r].status = 201
        /\ Len(students[r]) = 4
        /\ Cardinality({i \in 1..4 : students[r][i].faceDescriptor = <<>>}) = 1
        /\ res[r].summary = [totalStudents |-> 4, present |-> 3, absent |-> 1]

\* C6.  Extraction-failure fallback: when the extraction throws, the records are
\* those of the synthetic policy with p = 0.7 and a success response is the one
\* tagged as fallback; and the 0.7 records and the fallback response come about
\* only when the extraction threw.
C6_FallbackOnlyOnExtractionFailure ==
    \A r \in Reqs :
        /\ faceError[r] = "extraction" =>
               /\ IsSynthetic(attendanceRecords[r], students[r], 7)
               /\ (pc[r] = "done" /\ res[r].status = 201) =>
                      res[r].message = "Attendance recorded with fallback (face processing failed)"
        /\ (\/ pc[r] \in {"fallbackInsert", "fallbackFormat"}
            \/ (pc[r] = "done" /\ res[r].status = 201 /\
                res[r].message = "Attendance recorded with fallback (face processing failed)"))
           => faceError[r] = "extraction"

\* C7.  Persistence failures are hard failures: once Attendance.insertMany has
\* failed inside the try block, no other assignment is written for the request
\* and the request does not end with a success response.  (A failed write of the
\* mock or of the fallback records goes to the outer catch, and is a 500.)
C7_WriteFailureIsHardFailure ==
    \A r \in Reqs : faceError[r] = "insertMany" =>
        /\ WrittenBy(r) = <<>>
        /\ pc[r] = "done" => res[r].status = 500

\* C8.  All-or-nothing: a finished request has either answered with an error and
\* written nothing, or answered with a success and written exactly one record per
\* roster student.
C8_AllOrNothing ==
    \A r \in Reqs : pc[r] = "done" =>
        \/ res[r].status # 201 /\ WrittenBy(r) = <<>>
        \/ /\ res[r].status = 201
           /\ Len(WrittenBy(r)) = Len(students[r])
           /\ \A i \in 1..Len(students[r]) :
                Cardinality({j \in 1..Len(WrittenBy(r)) :
                                WrittenBy(r)[j].studentId = students[r][i].id}) = 1

\* The extraction has succeeded for r with zero faces.
ZeroFaces(r) ==
    /\ students[r] # <<>>
    /\ pc[r] \notin {"idle", "find", "detect", "mockInsert", "mockFormat"}
    /\ \A i \in 1..Len(students[r]) : students[r][i].faceDescriptor # <<>>
    /\ faceError[r] # "extraction"
    /\ detections[r] = <<>>

\* C9.  Empty photo: after an extraction that found no face, every record built
\* and every record written marks its student Absent, no matching is done, and a
\* success response is the no-faces one, with 0 Present and n Absent.
C9_EmptyPhotoAllAbsent ==
    \A r \in Reqs : ZeroFaces(r) =>
        /\ bestMatches[r] = <<>> /\ matchedStudents[r] = {}
        /\ \A j \in 1..Len(attendanceRecords[r]) : attendanceRecords[r][j].status = "Absent"
        /\ \A j \in 1..Len(WrittenBy(r)) : WrittenBy(r)[j].status = "Absent"
        /\ (pc[r] = "done" /\ res[r].status = 201) =>
               /\ res[r].message = "Attendance recorded successfully (no faces detected)"
               /\ res[r].summary = [totalStudents |-> Len(students[r]), present |-> 0,
                                    absent |-> Len(students[r])]

Key(rec) == <<rec.date, rec.period, rec.studentId>>

\* C10, as stated.  The log is append-only and holds at most one record for each
\* (date, period, student).
C10_AppendOnlyAndKeyed ==
    [][/\ Len(Attendance') >= Len(Attendance)
       /\ SubSeq(Attendance', 1, Len(Attendance)) = Attendance
       /\ \A i, j \in 1..Len(Attendance') :
            i # j => Key(Attendance'[i]) # Key(Attendance'[j])]_vars

\* C10, amended.  The log is append-only: every step leaves the records written
\* so far in place and unchanged, and adds new records only at the end.
C10_AppendOnly ==
    [][/\ Len(Attendance') >= Len(Attendance)
       /\ SubSeq(Attendance', 1, Len(Attendance)) = Attendance]_vars

\* Two submissions for the same class, date and period have both written their
\* records: the log holds the records of both, for the same key.
C10_Witness ==
    /\ \A r \in Reqs : pc[r] = "done" /\ res[r].status = 201
    /\ \E i, j \in 1..Len(Attendance) :
         /\ i < j
         /\ Attendance[i].classPhoto # Attendance[j].classPhoto
         /\ Key(Attendance[i]) = Key(Attendance[j])

====
